---------------------------- MODULE Spec2Model ----------------------------
(***************************************************************************)
(* skslc, the standalone SkSL compiler driver (src/sksl/SkSLMain.cpp):     *)
(* main splits argv into jobs at "--", processCommand runs one job         *)
(* (argument check, stage from the input suffix, read, pragma settings,    *)
(* backend from the output suffix, open, compile, emit, close), and        *)
(* detect_shader_settings strips recognized tokens from the end of the     *)
(* text of a "#pragma settings" comment.                                   *)
(*                                                                         *)
(* Strings are TLA+ strings; positions are 1-based.                        *)
(***************************************************************************)
EXTENDS Integers, Sequences, FiniteSets, TLC

VARIABLES
    argv,           \* the argument vector, argv[1] the program name
    files,          \* the file system: path |-> content, for the files that exist
    index,          \* main: the loop index (C index; argv[index + 1] is read)
    args,           \* main: the arguments stored up for the next command
    resultCode,     \* main: the worst status so far
    pc,             \* where control is
    ret,            \* which call of processCommand is running: "loop" or "final"
    outcome,        \* the ResultCode processCommand returns
    honorSettings,  \* processCommand locals
    kind,
    text,
    settings,
    caps,
    settingsText,   \* detect_shader_settings: what is left of the pragma's text
    passes,         \* detect_shader_settings: the passes of its loop so far
    out,            \* the FileOutputStream of the job: "none", "open", "invalid", "closed"
    program,        \* what the compiler produced: "none", "program", "null"
    staticCaps,     \* the function-local static capability bundles constructed so far
    constructions,  \* the calls of the ShaderCapsFactory so far, by name, in order
    stdout,         \* what was printed, in order
    trace,          \* the steps the running (or last) job performed, in order
    jobs,           \* the jobs that returned: <<[args, outcome]>>, in order
    call,           \* base_name on its own: its arguments, and what was read
                    \* in front of the path's buffer
    result          \* base_name on its own: what the call came to

vars == <<argv, files, index, args, resultCode, pc, ret, outcome, honorSettings,
          kind, text, settings, caps, settingsText, out, program, staticCaps,
          constructions, stdout, trace, jobs, call, result, passes>>

(***************************************************************************)
(* ResultCode                                                              *)
(***************************************************************************)
kSuccess == 0
kCompileError == 1
kInputError == 2
kOutputError == 3

INT_MAX == 2147483647

\* std::max on ResultCode
MaxKeepsLast(a, b) == b

Max(a, b) == IF a < b THEN b ELSE a

(***************************************************************************)
(* String primitives                                                       *)
(***************************************************************************)
\* String::endsWith
EndsWith(s, suffix) ==
    /\ Len(s) >= Len(suffix)
    /\ SubSeq(s, Len(s) - Len(suffix) + 1, Len(s)) = suffix

\* String::startsWith / strncmp(s, prefix, strlen(prefix)) == 0
StartsWith(s, prefix) ==
    /\ Len(s) >= Len(prefix)
    /\ SubSeq(s, 1, Len(prefix)) = prefix

\* strstr: the position of the first occurrence of pat in s at or after
\* position from, 0 when there is none
StrStr(s, pat, from) ==
    LET hits == {i \in from..(Len(s) - Len(pat) + 1) :
                    SubSeq(s, i, i + Len(pat) - 1) = pat}
    IN  IF hits = {} THEN 0 ELSE CHOOSE i \in hits : \A j \in hits : i <= j

\* String::consumeSuffix: the string without the suffix when it ends with it
ConsumeSuffix(s, suffix) ==
    IF EndsWith(s, suffix)
    THEN [hit |-> TRUE, rest |-> SubSeq(s, 1, Len(s) - Len(suffix))]
    ELSE [hit |-> FALSE, rest |-> s]

(***************************************************************************)
(* detect_shader_settings                                                  *)
(***************************************************************************)
kPragmaSettings == "/*#pragma settings "

\* The names tested by one pass of the loop, in the order of the code: the
\* capability bundles first, then the settings.
CapsNames ==
    << "AddAndTrueToLoopCondition", "BlendModesFailRandomlyForAllZeroVec",
       "CannotUseFractForNegativeValues", "CannotUseFragCoord",
       "CannotUseMinAndAbsTogether", "Default", "EmulateAbsIntFunction",
       "FragCoordsOld", "FragCoordsNew", "GeometryShaderExtensionString",
       "GeometryShaderSupport", "GSInvocationsExtensionString",
       "IncompleteShortIntPrecision",
       "MustGuardDivisionEvenAfterExplicitZeroCheck",
       "MustForceNegatedAtanParamToFloat", "NoGSInvocationsSupport",
       "RemovePowWithConstantExponent", "RewriteDoWhileLoops",
       "ShaderDerivativeExtensionString", "UnfoldShortCircuitAsTernary",
       "UsesPrecisionModifiers", "Version110", "Version450Core" >>

SettingNames ==
    << "FlipY", "ForceHighPrecision", "NoInline", "InlineThresholdMax", "Sharpen" >>

PragmaNames == CapsNames \o SettingNames

\* Program::Settings as constructed, and the caps processCommand starts from
kDefaultInlineThreshold == 50

DefaultSettings ==
    [fFlipY |-> FALSE, fForceHighPrecision |-> FALSE,
     fInlineThreshold |-> kDefaultInlineThreshold,
     fSharpenTextures |-> FALSE, fReplaceSettings |-> TRUE]

standaloneCaps == "standaloneCaps"

ApplySettingKeepsFirstCaps(name, st) ==
    CASE name = "FlipY" -> [st EXCEPT !.settings.fFlipY = TRUE]
      [] name = "ForceHighPrecision" ->
            [st EXCEPT !.settings.fForceHighPrecision = TRUE]
      [] name = "NoInline" -> [st EXCEPT !.settings.fInlineThreshold = 0]
      [] name = "InlineThresholdMax" ->
            [st EXCEPT !.settings.fInlineThreshold = INT_MAX]
      [] name = "Sharpen" -> [st EXCEPT !.settings.fSharpenTextures = TRUE]
      [] OTHER -> [st EXCEPT !.caps = IF @ = standaloneCaps THEN name ELSE @,
                             !.statics = @ \cup {name},
                             !.made = IF name \in st.statics THEN @
                                      ELSE Append(@, name)]

ApplySettingSharpenSetsFlipY(name, st) ==
    CASE name = "FlipY" -> [st EXCEPT !.settings.fFlipY = TRUE]
      [] name = "ForceHighPrecision" ->
            [st EXCEPT !.settings.fForceHighPrecision = TRUE]
      [] name = "NoInline" -> [st EXCEPT !.settings.fInlineThreshold = 0]
      [] name = "InlineThresholdMax" ->
            [st EXCEPT !.settings.fInlineThreshold = INT_MAX]
      [] name = "Sharpen" -> [st EXCEPT !.settings.fFlipY = TRUE]
      [] OTHER -> [st EXCEPT !.caps = name, !.statics = @ \cup {name},
                             !.made = IF name \in st.statics THEN @
                                      ELSE Append(@, name)]

ApplySettingConstructsAgain(name, st) ==
    CASE name = "FlipY" -> [st EXCEPT !.settings.fFlipY = TRUE]
      [] name = "ForceHighPrecision" ->
            [st EXCEPT !.settings.fForceHighPrecision = TRUE]
      [] name = "NoInline" -> [st EXCEPT !.settings.fInlineThreshold = 0]
      [] name = "InlineThresholdMax" ->
            [st EXCEPT !.settings.fInlineThreshold = INT_MAX]
      [] name = "Sharpen" -> [st EXCEPT !.settings.fSharpenTextures = TRUE]
      [] OTHER -> [st EXCEPT !.caps = name, !.statics = @ \cup {name},
                             !.made = Append(@, name)]

\* What a matched name does to (settings, caps, the static bundles): a
\* bundle is a function-local static, constructed by the factory the first
\* time its declaration is reached
ApplySetting(name, st) ==
    CASE name = "FlipY" -> [st EXCEPT !.settings.fFlipY = TRUE]
      [] name = "ForceHighPrecision" ->
            [st EXCEPT !.settings.fForceHighPrecision = TRUE]
      [] name = "NoInline" -> [st EXCEPT !.settings.fInlineThreshold = 0]
      [] name = "InlineThresholdMax" ->
            [st EXCEPT !.settings.fInlineThreshold = INT_MAX]
      [] name = "Sharpen" -> [st EXCEPT !.settings.fSharpenTextures = TRUE]
      [] OTHER -> [st EXCEPT !.caps = name, !.statics = @ \cup {name},
                             !.made = IF name \in st.statics THEN @
                                      ELSE Append(@, name)]

\* One `if (settingsText.consumeSuffix(" Name")) { ... }`
ConsumeName(name, st) ==
    LET c == ConsumeSuffix(st.text, " " \o name)
    IN  IF c.hit THEN ApplySetting(name, [st EXCEPT !.text = c.rest]) ELSE st

\* The ifs of one pass, from the i-th on
RECURSIVE ConsumeFrom(_, _)
ConsumeFrom(i, st) ==
    IF i > Len(PragmaNames) THEN st
    ELSE LET next == ConsumeName(PragmaNames[i], st)
         IN  \* the test only makes TLC evaluate next before the call
             IF Len(next.text) <= Len(st.text) THEN ConsumeFrom(i + 1, next)
             ELSE next

PassWithoutLoop(st) ==
    LET after == ConsumeFrom(1, st)
    IN  [st |-> after,
         end |-> IF after.text = "" THEN "done" ELSE "fail"]

PassGoesOnWhenStuck(st) ==
    LET after == ConsumeFrom(1, st)
    IN  [st |-> after,
         end |-> IF after.text = "" THEN "done" ELSE "again"]

PassBreaksWhenStuck(st) ==
    LET after == ConsumeFrom(1, st)
    IN  [st |-> after,
         end |-> IF after.text = "" \/ Len(after.text) = Len(st.text) THEN "done"
                 ELSE "again"]

\* One pass of the for (;;) loop: the state after its ifs, and how it ends
\* ("done": break, "fail": return false, "again": the next pass)
Pass(st) ==
    LET after == ConsumeFrom(1, st)
    IN  [st |-> after,
         end |-> IF after.text = "" THEN "done"
                 ELSE IF Len(after.text) = Len(st.text) THEN "fail"
                 ELSE "again"]

SettingsTextOfDropsSpace(source) ==
    LET settingsPtr == StrStr(source, kPragmaSettings, 1)
        start       == settingsPtr + Len(kPragmaSettings)
        settingsEnd == IF settingsPtr = 0 THEN 0 ELSE StrStr(source, "*/", start)
    IN  IF settingsPtr = 0 \/ settingsEnd = 0
        THEN [found |-> FALSE, text |-> ""]
        ELSE [found |-> TRUE, text |-> SubSeq(source, start, settingsEnd - 1)]

SettingsTextOfToTheEnd(source) ==
    LET settingsPtr == StrStr(source, kPragmaSettings, 1)
        start       == settingsPtr + Len(kPragmaSettings) - 1
        settingsEnd == IF settingsPtr = 0 THEN 0 ELSE StrStr(source, "*/", start)
    IN  IF settingsPtr = 0
        THEN [found |-> FALSE, text |-> ""]
        ELSE [found |-> TRUE,
              text |-> SubSeq(source, start,
                              IF settingsEnd = 0 THEN Len(source) ELSE settingsEnd - 1)]

\* The text of the first pragma comment, from the last space of the marker
\* to the terminator; found = FALSE when there is no marker or no terminator
SettingsTextOf(source) ==
    LET settingsPtr == StrStr(source, kPragmaSettings, 1)
        start       == settingsPtr + Len(kPragmaSettings) - 1
        settingsEnd == IF settingsPtr = 0 THEN 0 ELSE StrStr(source, "*/", start)
    IN  IF settingsPtr = 0 \/ settingsEnd = 0
        THEN [found |-> FALSE, text |-> ""]
        ELSE [found |-> TRUE, text |-> SubSeq(source, start, settingsEnd - 1)]

\* The loop run to its end
RECURSIVE RunPasses(_)
RunPasses(st) ==
    LET p == Pass(st)
    IN  IF p.end = "again" THEN RunPasses(p.st)
        ELSE [ok |-> p.end = "done", st |-> p.st]

\* detect_shader_settings(text, &settings, &caps) as a function
DetectShaderSettings(source, s, c, statics) ==
    LET found == SettingsTextOf(source)
        st0   == [text |-> found.text, settings |-> s, caps |-> c,
                  statics |-> statics, made |-> <<>>]
    IN  IF found.found THEN RunPasses(st0)
        ELSE [ok |-> TRUE, st |-> [st0 EXCEPT !.text = ""]]

(***************************************************************************)
(* base_name, and the suffix tables of processCommand                      *)
(***************************************************************************)
\* The position of the first character of the file name: after the last
\* '/' or '\', 1 when the path has none
FileNameStart(path) ==
    LET slashes == {i \in 1..Len(path) :
                       SubSeq(path, i, i) = "/" \/ SubSeq(path, i, i) = "\\"}
    IN  IF slashes = {} THEN 1
        ELSE 1 + CHOOSE i \in slashes : \A j \in slashes : j <= i

\* What strncmp(end - strlen(suffix), suffix, strlen(suffix)) may find in
\* front of the buffer when the suffix is longer than the path: the bytes
\* there are not the string's, so they may or may not be the first
\* characters of the suffix
Filler(k) == SubSeq("################", 1, k)

BeforeBuffer(fpPath, suffix) ==
    IF Len(suffix) <= Len(fpPath) THEN {""}
    ELSE {SubSeq(suffix, 1, Len(suffix) - Len(fpPath)),
          Filler(Len(suffix) - Len(fpPath))}

\* base_name. before is what stands in front of the path's buffer, as far as
\* the suffix reaches beyond it. returned is FALSE when the length given to
\* append is negative: as a size_t it is beyond max_size, append throws
\* std::length_error, nothing catches it.
base_name(fpPath, prefix, suffix, before) ==
    LET fileName == FileNameStart(fpPath)
        n        == Len(fpPath) - (fileName - 1) - Len(prefix) - Len(suffix)
    IN  IF /\ StartsWith(SubSeq(fpPath, fileName, Len(fpPath)), prefix)
           /\ EndsWith(before \o fpPath, suffix)
        THEN IF n < 0 THEN [returned |-> FALSE, result |-> ""]
             ELSE [returned |-> TRUE,
                   result |-> SubSeq(fpPath, fileName + Len(prefix),
                                     fileName + Len(prefix) + n - 1)]
        ELSE [returned |-> TRUE, result |-> ""]

\* The kind chosen from the input path, "none" when the chain ends in its else
KindOfDefaultsToFragment(inputPath) ==
    IF EndsWith(inputPath, ".vert") THEN "kVertex_Kind"
    ELSE IF EndsWith(inputPath, ".geom") THEN "kGeometry_Kind"
    ELSE IF EndsWith(inputPath, ".fp") THEN "kFragmentProcessor_Kind"
    ELSE IF EndsWith(inputPath, ".stage") THEN "kPipelineStage_Kind"
    ELSE "kFragment_Kind"

KindOf(inputPath) ==
    IF EndsWith(inputPath, ".vert") THEN "kVertex_Kind"
    ELSE IF EndsWith(inputPath, ".frag") \/ EndsWith(inputPath, ".sksl")
         THEN "kFragment_Kind"
    ELSE IF EndsWith(inputPath, ".geom") THEN "kGeometry_Kind"
    ELSE IF EndsWith(inputPath, ".fp") THEN "kFragmentProcessor_Kind"
    ELSE IF EndsWith(inputPath, ".stage") THEN "kPipelineStage_Kind"
    ELSE "none"

\* The branch taken from the output path, "none" for the final else
BackendOfDefaultsToGlsl(outputPath) ==
    IF EndsWith(outputPath, ".spirv") THEN "spirv"
    ELSE IF EndsWith(outputPath, ".metal") THEN "metal"
    ELSE IF EndsWith(outputPath, ".h") THEN "h"
    ELSE IF EndsWith(outputPath, ".cpp") THEN "cpp"
    ELSE IF EndsWith(outputPath, ".dehydrated.sksl") THEN "dehydrated"
    ELSE "glsl"

BackendOf(outputPath) ==
    IF EndsWith(outputPath, ".spirv") THEN "spirv"
    ELSE IF EndsWith(outputPath, ".glsl") THEN "glsl"
    ELSE IF EndsWith(outputPath, ".metal") THEN "metal"
    ELSE IF EndsWith(outputPath, ".h") THEN "h"
    ELSE IF EndsWith(outputPath, ".cpp") THEN "cpp"
    ELSE IF EndsWith(outputPath, ".dehydrated.sksl") THEN "dehydrated"
    ELSE "none"

(***************************************************************************)
(* The collaborators: the output stream, the compiler's text, the emitters *)
(***************************************************************************)
\* FileOutputStream(path): fopen(path, "wb") truncates the file
Truncated(fs, path) == (path :> "") @@ fs

\* writeText / printf / the emitters' writes on an open stream
Written(fs, path, data) == (path :> (fs[path] \o data)) @@ fs

kBanner == "### Compilation failed:\n\n"

\* Compiler::errorText() of a failed compilation or emission
ErrorText == "error: 1: compilation failed\n"

\* What a backend writes for a program when it succeeds, and what it may
\* leave behind when it fails
Emitted(backend, baseName) ==
    IF backend \in {"h", "cpp"}
    THEN "<" \o backend \o " " \o baseName \o ">"
    ELSE "<" \o backend \o ">"

PartialOutput(backend) == "<" \o backend

Dehydrated(baseName) ==
    "static uint8_t SKSL_INCLUDE_" \o baseName \o "[] = {};\n"
    \o "static constexpr size_t SKSL_INCLUDE_" \o baseName
    \o "_LENGTH = sizeof(SKSL_INCLUDE_" \o baseName \o ");\n"

kUsage == "usage: skslc <input> <output> <flags> -- <input2> <output2> <flags> -- ...\n"

(***************************************************************************)
(* processCommand, one action per step                                     *)
(***************************************************************************)
inputPath == args[2]
outputPath == args[3]

\* return <code>; from processCommand
ReturnWith(code) ==
    /\ outcome' = code
    /\ pc' = "return"

\* Lines 223-239: what the argument list is taken for. "honor" and "ignore"
\* go on with honorSettings true and false, "flag" and "usage" return
ShapeOfNosettingsHonors(a) ==
    IF Len(a) = 4
    THEN IF a[4] = "--settings" \/ a[4] = "--nosettings" THEN "honor"
         ELSE "flag"
    ELSE IF Len(a) # 3 THEN "usage"
    ELSE "honor"

ShapeOfAcceptsLonger(a) ==
    IF Len(a) = 4
    THEN IF a[4] = "--settings" THEN "honor"
         ELSE IF a[4] = "--nosettings" THEN "ignore"
         ELSE "flag"
    ELSE IF Len(a) < 3 THEN "usage"
    ELSE "honor"

ShapeOf(a) ==
    IF Len(a) = 4
    THEN IF a[4] = "--settings" THEN "honor"
         ELSE IF a[4] = "--nosettings" THEN "ignore"
         ELSE "flag"
    ELSE IF Len(a) # 3 THEN "usage"
    ELSE "honor"

CheckArgs ==
    /\ pc = "check_args"
    /\ honorSettings' = (ShapeOf(args) # "ignore")
    /\ CASE ShapeOf(args) = "flag" ->
              /\ stdout' = stdout \o <<"unrecognized flag: " \o args[4] \o "\n\n",
                                       kUsage>>
              /\ ReturnWith(kInputError)
         [] ShapeOf(args) = "usage" ->
              /\ stdout' = Append(stdout, kUsage)
              /\ ReturnWith(kInputError)
         [] OTHER ->
              /\ pc' = "resolve_kind"
              /\ UNCHANGED <<outcome, stdout>>
    /\ UNCHANGED <<passes, constructions, call, result, argv, files, index,
                   args, resultCode, ret, kind, text, settings, caps,
                   settingsText, out, program, staticCaps, trace, jobs>>

\* Lines 241-257: the kind from the input path
ResolveKind ==
    /\ pc = "resolve_kind"
    /\ kind' = KindOf(inputPath)
    /\ IF KindOf(inputPath) = "none"
       THEN /\ stdout' = Append(stdout, "input filename must end in '.vert', '.frag', '.geom', '.fp', '.stage', or '.sksl'\n")
            /\ ReturnWith(kInputError)
       ELSE /\ pc' = "read_input"
            /\ UNCHANGED <<outcome, stdout>>
    /\ UNCHANGED <<passes, constructions, call, result, argv, files, index,
                   args, resultCode, ret, honorSettings, text, settings, caps,
                   settingsText, out, program, staticCaps, trace, jobs>>

\* Lines 259-265: the input file read whole; a file that is not there
\* leaves the stream in a failed state
ReadInput ==
    /\ pc = "read_input"
    /\ trace' = Append(trace, IF inputPath \in DOMAIN files
                               THEN "read" ELSE "read_failed")
    /\ IF inputPath \in DOMAIN files
       THEN /\ text' = files[inputPath]
            /\ pc' = "detect"
            /\ UNCHANGED <<outcome, stdout>>
       ELSE /\ text' = ""
            /\ stdout' = Append(stdout, "error reading '" \o inputPath \o "'\n")
            /\ ReturnWith(kInputError)
    /\ UNCHANGED <<passes, constructions, call, result, argv, files, index,
                   args, resultCode, ret, honorSettings, kind, settings, caps,
                   settingsText, out, program, staticCaps, jobs>>

DetectBeginKeepsSettings ==
    /\ pc = "detect"
    /\ UNCHANGED <<settings, caps>>
    /\ IF honorSettings
       THEN /\ trace' = Append(trace, "pragma")
            /\ settingsText' = SettingsTextOf(text).text
            /\ pc' = IF SettingsTextOf(text).found THEN "pragma_pass" ELSE "route"
       ELSE /\ pc' = "route"
            /\ UNCHANGED <<trace, settingsText>>
    /\ passes' = 0
    /\ UNCHANGED <<constructions, call, result, argv, files, index, args,
                   resultCode, ret, outcome, honorSettings, kind, text, out,
                   program, staticCaps, stdout, jobs>>

\* Lines 267-270 and 64-79: fresh settings and caps, and, with honorSettings,
\* the call of detect_shader_settings up to its loop
DetectBegin ==
    /\ pc = "detect"
    /\ settings' = DefaultSettings
    /\ caps' = standaloneCaps
    /\ IF honorSettings
       THEN /\ trace' = Append(trace, "pragma")
            /\ settingsText' = SettingsTextOf(text).text
            /\ pc' = IF SettingsTextOf(text).found THEN "pragma_pass" ELSE "route"
       ELSE /\ pc' = "route"
            /\ UNCHANGED <<trace, settingsText>>
    /\ passes' = 0
    /\ UNCHANGED <<constructions, call, result, argv, files, index, args,
                   resultCode, ret, outcome, honorSettings, kind, text, out,
                   program, staticCaps, stdout, jobs>>

\* Lines 83-201 and 270-272: one pass of the loop of detect_shader_settings
PragmaPass ==
    /\ pc = "pragma_pass"
    /\ LET p == Pass([text |-> settingsText, settings |-> settings,
                      caps |-> caps, statics |-> staticCaps,
                      made |-> constructions])
       IN  /\ settingsText' = p.st.text
           /\ settings' = p.st.settings
           /\ caps' = p.st.caps
           /\ staticCaps' = p.st.statics
           /\ constructions' = p.st.made
           /\ passes' = passes + 1
           /\ IF p.end = "fail"
              THEN /\ stdout' = Append(stdout, "Unrecognized #pragma settings: "
                                               \o p.st.text \o "\n")
                   /\ ReturnWith(kInputError)
              ELSE /\ pc' = IF p.end = "done" THEN "route" ELSE "pragma_pass"
                   /\ UNCHANGED <<outcome, stdout>>
    /\ UNCHANGED <<call, result, argv, files, index, args, resultCode, ret,
                   honorSettings, kind, text, out, program, trace, jobs>>

RouteGoesOnWhenInvalid ==
    /\ pc = "route"
    /\ IF BackendOf(outputPath) = "none"
       THEN /\ stdout' = Append(stdout, "expected output filename to end with '.spirv', '.glsl', '.cpp', '.h', or '.metal'")
            /\ ReturnWith(kInputError)
            /\ UNCHANGED <<files, out, trace>>
       ELSE \E opened \in BOOLEAN :
            /\ trace' = Append(trace, IF opened THEN "open" ELSE "open_failed")
            /\ IF opened
               THEN /\ files' = Truncated(files, outputPath)
                    /\ out' = "open"
                    /\ pc' = IF BackendOf(outputPath) = "dehydrated"
                             THEN "load_module" ELSE "compile"
                    /\ UNCHANGED <<outcome, stdout>>
               ELSE /\ out' = "invalid"
                    /\ pc' = IF BackendOf(outputPath) = "dehydrated"
                             THEN "load_module" ELSE "compile"
                    /\ UNCHANGED <<files, outcome, stdout>>
    /\ UNCHANGED <<passes, constructions, call, result, argv, index, args,
                   resultCode, ret, honorSettings, kind, text, settings, caps,
                   settingsText, program, staticCaps, jobs>>

\* Lines 275, 287-293 (and the same lines of the other branches), 396-399:
\* the branch from the output path, and the output stream opened
Route ==
    /\ pc = "route"
    /\ IF BackendOf(outputPath) = "none"
       THEN /\ stdout' = Append(stdout, "expected output filename to end with '.spirv', '.glsl', '.cpp', '.h', or '.metal'")
            /\ ReturnWith(kInputError)
            /\ UNCHANGED <<files, out, trace>>
       ELSE \E opened \in BOOLEAN :
            /\ trace' = Append(trace, IF opened THEN "open" ELSE "open_failed")
            /\ IF opened
               THEN /\ files' = Truncated(files, outputPath)
                    /\ out' = "open"
                    /\ pc' = IF BackendOf(outputPath) = "dehydrated"
                             THEN "load_module" ELSE "compile"
                    /\ UNCHANGED <<outcome, stdout>>
               ELSE /\ out' = "invalid"
                    /\ stdout' = Append(stdout, "error writing '" \o outputPath \o "'\n")
                    /\ ReturnWith(kOutputError)
                    /\ UNCHANGED files
    /\ UNCHANGED <<passes, constructions, call, result, argv, index, args,
                   resultCode, ret, honorSettings, kind, text, settings, caps,
                   settingsText, program, staticCaps, jobs>>

CompileClearsReplaceSettings ==
    /\ pc = "compile"
    /\ settings' = [settings EXCEPT !.fReplaceSettings = FALSE]
    /\ \E compiled \in BOOLEAN :
          /\ trace' = Append(trace, IF compiled THEN "compile" ELSE "compile_failed")
          /\ program' = IF compiled THEN "program" ELSE "null"
          /\ pc' = IF compiled THEN "emit" ELSE "compile_error"
    /\ UNCHANGED <<passes, constructions, call, result, argv, files, index,
                   args, resultCode, ret, outcome, honorSettings, kind, text,
                   caps, settingsText, out, staticCaps, stdout, jobs>>

\* Lines 294, 310, 326, 342-343, 359-360: convertProgram; the .h and .cpp
\* branches clear fReplaceSettings first
Compile ==
    /\ pc = "compile"
    /\ settings' = IF BackendOf(outputPath) \in {"h", "cpp"}
                   THEN [settings EXCEPT !.fReplaceSettings = FALSE]
                   ELSE settings
    /\ \E compiled \in BOOLEAN :
          /\ trace' = Append(trace, IF compiled THEN "compile" ELSE "compile_failed")
          /\ program' = IF compiled THEN "program" ELSE "null"
          /\ pc' = IF compiled THEN "emit" ELSE "compile_error"
    /\ UNCHANGED <<passes, constructions, call, result, argv, files, index,
                   args, resultCode, ret, outcome, honorSettings, kind, text,
                   caps, settingsText, out, staticCaps, stdout, jobs>>

\* Lines 295, 311, 327, 344, 361: the emitter of the branch writes to out
Emit ==
    /\ pc = "emit"
    /\ \E emitted \in BOOLEAN, before \in BeforeBuffer(inputPath, ".fp") :
          LET backend  == BackendOf(outputPath)
              baseName == IF backend \in {"h", "cpp"}
                          THEN base_name(inputPath, "Gr", ".fp", before)
                          ELSE [returned |-> TRUE, result |-> ""]
          IN  IF ~baseName.returned
              THEN /\ pc' = "terminated"
                   /\ UNCHANGED <<files, trace>>
              ELSE /\ trace' = Append(trace, IF emitted THEN "emit" ELSE "emit_failed")
                   /\ files' = Written(files, outputPath,
                                       IF emitted THEN Emitted(backend, baseName.result)
                                       ELSE PartialOutput(backend))
                   /\ pc' = IF emitted THEN "close" ELSE "compile_error"
    /\ UNCHANGED <<passes, constructions, call, result, argv, index, args,
                   resultCode, ret, outcome, honorSettings, kind, text,
                   settings, caps, settingsText, out, program, staticCaps,
                   stdout, jobs>>

EmitCompileErrorAppends ==
    /\ pc = "compile_error"
    /\ out' = "closed"
    /\ \E reopened, closed, errorClosed \in BOOLEAN :
          /\ trace' = trace \o <<IF closed THEN "close" ELSE "close_failed",
                                 IF reopened THEN "reopen" ELSE "reopen_failed",
                                 IF errorClosed THEN "close" ELSE "close_failed">>
          /\ files' = IF reopened
                      THEN Written(files, outputPath, kBanner \o ErrorText)
                      ELSE files
    /\ stdout' = Append(stdout, ErrorText)
    /\ ReturnWith(kCompileError)
    /\ UNCHANGED <<passes, constructions, call, result, argv, index, args,
                   resultCode, ret, honorSettings, kind, text, settings, caps,
                   settingsText, program, staticCaps, jobs>>

EmitCompileErrorLeavesOpen ==
    /\ pc = "compile_error"
    /\ \E reopened, errorClosed \in BOOLEAN :
          /\ trace' = trace \o <<IF reopened THEN "reopen" ELSE "reopen_failed",
                                 IF errorClosed THEN "close" ELSE "close_failed">>
          /\ files' = IF reopened
                      THEN Written(Truncated(files, outputPath), outputPath,
                                   kBanner \o ErrorText)
                      ELSE files
    /\ stdout' = Append(stdout, ErrorText)
    /\ ReturnWith(kCompileError)
    /\ UNCHANGED <<passes, constructions, call, result, argv, index, args,
                   resultCode, ret, honorSettings, kind, text, settings, caps,
                   settingsText, out, program, staticCaps, jobs>>

\* Lines 276-285 with 296-297 (and the same lines of the other branches):
\* out is closed, the path opened again for the message, the message
\* written and the second stream closed, the message also printed. Neither
\* the second stream's validity nor the result of either close is tested.
EmitCompileError ==
    /\ pc = "compile_error"
    /\ out' = "closed"
    /\ \E reopened, closed, errorClosed \in BOOLEAN :
          /\ trace' = trace \o <<IF closed THEN "close" ELSE "close_failed",
                                 IF reopened THEN "reopen" ELSE "reopen_failed",
                                 IF errorClosed THEN "close" ELSE "close_failed">>
          /\ files' = IF reopened
                      THEN Written(Truncated(files, outputPath), outputPath,
                                   kBanner \o ErrorText)
                      ELSE files
    /\ stdout' = Append(stdout, ErrorText)
    /\ ReturnWith(kCompileError)
    /\ UNCHANGED <<passes, constructions, call, result, argv, index, args,
                   resultCode, ret, honorSettings, kind, text, settings, caps,
                   settingsText, program, staticCaps, jobs>>

\* Lines 376-377: loadModule; its result is used whatever it reported
LoadModule ==
    /\ pc = "load_module"
    /\ trace' = Append(trace, "compile")
    /\ \E loaded \in BOOLEAN : program' = IF loaded THEN "program" ELSE "null"
    /\ pc' = "dehydrate"
    /\ UNCHANGED <<passes, constructions, call, result, argv, files, index,
                   args, resultCode, ret, outcome, honorSettings, kind, text,
                   settings, caps, settingsText, out, staticCaps, stdout,
                   jobs>>

\* Lines 378-391: the dehydrated module printed as a byte array
Dehydrate ==
    /\ pc = "dehydrate"
    /\ \E before \in BeforeBuffer(inputPath, ".sksl") :
          LET baseName == base_name(inputPath, "", ".sksl", before)
          IN  IF ~baseName.returned
              THEN /\ pc' = "terminated"
                   /\ UNCHANGED <<files, trace>>
              ELSE /\ trace' = Append(trace, "emit")
                   /\ files' = Written(files, outputPath, Dehydrated(baseName.result))
                   /\ pc' = "close"
    /\ UNCHANGED <<passes, constructions, call, result, argv, index, args,
                   resultCode, ret, outcome, honorSettings, kind, text,
                   settings, caps, settingsText, out, program, staticCaps,
                   stdout, jobs>>

CloseIgnoresFailure ==
    /\ pc = "close"
    /\ out' = "closed"
    /\ \E closed \in BOOLEAN :
          /\ trace' = Append(trace, IF closed THEN "close" ELSE "close_failed")
          /\ ReturnWith(kSuccess)
          /\ UNCHANGED stdout
    /\ UNCHANGED <<passes, constructions, call, result, argv, files, index,
                   args, resultCode, ret, honorSettings, kind, text, settings,
                   caps, settingsText, program, staticCaps, jobs>>

\* Lines 299-302 (and the same lines of the other branches), 392-395, 400
Close ==
    /\ pc = "close"
    /\ out' = "closed"
    /\ \E closed \in BOOLEAN :
          /\ trace' = Append(trace, IF closed THEN "close" ELSE "close_failed")
          /\ IF closed
             THEN /\ ReturnWith(kSuccess)
                  /\ UNCHANGED stdout
             ELSE /\ stdout' = Append(stdout, "error writing '" \o outputPath \o "'\n")
                  /\ ReturnWith(kOutputError)
    /\ UNCHANGED <<passes, constructions, call, result, argv, files, index,
                   args, resultCode, ret, honorSettings, kind, text, settings,
                   caps, settingsText, program, staticCaps, jobs>>

(***************************************************************************)
(* main                                                                    *)
(***************************************************************************)
argc == Len(argv)

\* processCommand(args) entered: a new frame
Call(site) ==
    /\ pc' = "check_args"
    /\ ret' = site
    /\ kind' = "none"
    /\ text' = ""
    /\ settingsText' = ""
    /\ out' = "none"
    /\ program' = "none"
    /\ trace' = <<>>

\* Lines 407-414 and 420-421: one argument of the loop
MainLoop ==
    /\ pc = "main_loop"
    /\ index < argc
    /\ LET arg == argv[index + 1]
       IN  IF arg # "--"
           THEN /\ args' = Append(args, arg)
                /\ index' = index + 1
                /\ UNCHANGED <<pc, ret, kind, text, settingsText, out, program, trace>>
           ELSE IF Len(args) > 1
           THEN /\ Call("loop")
                /\ UNCHANGED <<args, index>>
           ELSE /\ index' = index + 1
                /\ UNCHANGED <<args, pc, ret, kind, text, settingsText, out, program,
                               trace>>
    /\ UNCHANGED <<passes, constructions, call, result, argv, files,
                   resultCode, outcome, honorSettings, settings, caps,
                   staticCaps, stdout, jobs>>

MainFinalDropsTrailing ==
    /\ pc = "main_loop"
    /\ index >= argc
    /\ pc' = "exit"
    /\ UNCHANGED <<passes, constructions, call, result, argv, files, index,
                   args, resultCode, ret, outcome, honorSettings, kind, text,
                   settings, caps, settingsText, out, program, staticCaps,
                   stdout, trace, jobs>>

\* Lines 424-426 and 433: after the loop
MainFinal ==
    /\ pc = "main_loop"
    /\ index >= argc
    /\ IF Len(args) > 1
       THEN Call("final")
       ELSE /\ pc' = "exit"
            /\ UNCHANGED <<ret, kind, text, settingsText, out, program, trace>>
    /\ UNCHANGED <<passes, constructions, call, result, argv, files, index,
                   args, resultCode, outcome, honorSettings, settings, caps,
                   staticCaps, stdout, jobs>>

\* Lines 415-419 and 426-427, 433: processCommand has returned
CommandReturns ==
    /\ pc = "return"
    /\ resultCode' = Max(resultCode, outcome)
    /\ jobs' = Append(jobs, [args |-> args, outcome |-> outcome])
    /\ IF ret = "loop"
       THEN /\ args' = SubSeq(args, 1, 1)
            /\ index' = index + 1
            /\ pc' = "main_loop"
       ELSE /\ pc' = "exit"
            /\ UNCHANGED <<args, index>>
    /\ UNCHANGED <<passes, constructions, call, result, argv, files, ret,
                   outcome, honorSettings, kind, text, settings, caps,
                   settingsText, out, program, staticCaps, stdout, trace>>

Next ==
    \/ MainLoop
    \/ MainFinal
    \/ CommandReturns
    \/ CheckArgs
    \/ ResolveKind
    \/ ReadInput
    \/ DetectBegin
    \/ PragmaPass
    \/ Route
    \/ Compile
    \/ Emit
    \/ EmitCompileError
    \/ LoadModule
    \/ Dehydrate
    \/ Close

(***************************************************************************)
(* The runs checked: the argument vectors and the files they start from    *)
(***************************************************************************)
MaxArgs == 5        \* arguments after the program name, in a batch
MaxTokens == 3      \* names in a generated pragma

SeqsUpTo(S, n) == UNION {[1..k -> S] : k \in 0..n}

RECURSIVE Concat(_)
Concat(ss) == IF ss = <<>> THEN "" ELSE Head(ss) \o Concat(Tail(ss))

\* A source whose pragma comment lists the given names, each after one space
PragmaOf(names) ==
    "/*#pragma settings" \o Concat([i \in 1..Len(names) |-> " " \o names[i]]) \o "*/"

\* The same comment without its terminator; a terminator before the marker
\* is not one
Unterminated(names) ==
    "*/ /*#pragma settings" \o Concat([i \in 1..Len(names) |-> " " \o names[i]])

\* Batches: every argument vector over a few arguments
BatchArgs == {"a.sksl", "n.frag", "b.glsl", "--"}

BatchFiles ==
    ("a.sksl" :> (PragmaOf(<<"Default", "Sharpen">>) \o " void main() {}"))
    @@ ("n.frag" :> "void main() {}")

InitBatch ==
    /\ argv \in {<<"skslc">> \o s : s \in SeqsUpTo(BatchArgs, MaxArgs)}
    /\ files = BatchFiles

\* Single jobs: every input suffix, output suffix and flag
InputPaths ==
    {"s.vert", "s.frag", "s.sksl", "s.geom", "fx/GrFoo.fp", "a.fp", "s.stage",
     "s.txt", "vert"}

OutputPaths ==
    {"o.spirv", "o.glsl", "o.metal", "GrFoo.h", "GrFoo.cpp", "o.dehydrated.sksl",
     "o.sksl", "o.txt"}

Flags == {<<>>, <<"--settings">>, <<"--nosettings">>, <<"--bogus">>}

JobSources ==
    {"void main() {}", PragmaOf(<<"NoInline">>), PragmaOf(<<"Bogus">>)}

InitJob ==
    \E i \in InputPaths, o \in OutputPaths, f \in Flags :
       /\ argv = <<"skslc", i, o>> \o f
       /\ \/ files \in {i :> src : src \in JobSources}
          \/ files = <<>>

\* Pragmas: one job whose source holds a generated pragma
TokenPool ==
    {"Default", "Version110", "NoInline", "InlineThresholdMax", "Sharpen",
     "Bogus", ""}

TokenSeqs ==
    SeqsUpTo(TokenPool, MaxTokens)
    \cup {<<PragmaNames[i]>> : i \in 1..Len(PragmaNames)}

PragmaSources ==
    {PragmaOf(names) : names \in TokenSeqs}
    \cup {Unterminated(names) : names \in {n \in TokenSeqs : Len(n) <= 1}}

InitPragma ==
    /\ argv \in {<<"skslc", "a.sksl", "b.glsl">> \o f : f \in {<<>>, <<"--nosettings">>}}
    /\ files \in {"a.sksl" :> src : src \in PragmaSources}

Init ==
    /\ \/ InitBatch
       \/ InitJob
       \/ InitPragma
    /\ index = 1
    /\ args = SubSeq(argv, 1, 1)
    /\ resultCode = kSuccess
    /\ pc = "main_loop"
    /\ ret = "final"
    /\ outcome = kSuccess
    /\ honorSettings = TRUE
    /\ kind = "none"
    /\ text = ""
    /\ settings = DefaultSettings
    /\ caps = standaloneCaps
    /\ settingsText = ""
    /\ out = "none"
    /\ program = "none"
    /\ staticCaps = {}
    /\ constructions = <<>>
    /\ passes = 0
    /\ stdout = <<>>
    /\ trace = <<>>
    /\ jobs = <<>>
    /\ call = <<>>
    /\ result = "none"

Spec == Init /\ [][Next]_vars

(***************************************************************************)
(* base_name called on its own                                             *)
(***************************************************************************)
BaseNamePaths ==
    {"a/b/GrFoo.fp", "a\\GrFoo.fp", "GrFoo.fp", "Gr.fp", "Foo.fp", "GrFoo.h",
     "a/Gr.fp/", "x/Gr", "a.fp", ".fp", "fp", "s.sksl", "sksl"}

BaseNamePrefixes == {"Gr", "Gr.", ""}

BaseNameSuffixes == {".fp", ".sksl", ""}

InitBaseName ==
    /\ call \in [fpPath : BaseNamePaths, prefix : BaseNamePrefixes,
                  suffix : BaseNameSuffixes, before : {""}]
    /\ result = "none"
    /\ pc = "base_name"
    /\ argv = <<"skslc">>
    /\ files = <<>>
    /\ index = 1
    /\ args = <<"skslc">>
    /\ resultCode = kSuccess
    /\ ret = "final"
    /\ outcome = kSuccess
    /\ honorSettings = TRUE
    /\ kind = "none"
    /\ text = ""
    /\ settings = DefaultSettings
    /\ caps = standaloneCaps
    /\ settingsText = ""
    /\ out = "none"
    /\ program = "none"
    /\ staticCaps = {}
    /\ constructions = <<>>
    /\ passes = 0
    /\ stdout = <<>>
    /\ trace = <<>>
    /\ jobs = <<>>

\* Lines 46-59: the call, with what it read in front of the buffer
BaseNameCall ==
    /\ pc = "base_name"
    /\ \E before \in BeforeBuffer(call.fpPath, call.suffix) :
          /\ call' = [call EXCEPT !.before = before]
          /\ result' = base_name(call.fpPath, call.prefix, call.suffix, before)
          /\ pc' = IF base_name(call.fpPath, call.prefix, call.suffix, before).returned
                   THEN "base_name_returned" ELSE "terminated"
    /\ UNCHANGED <<argv, files, index, args, resultCode, ret, outcome,
                   honorSettings, kind, text, settings, caps, settingsText, out,
                   program, staticCaps, constructions, passes, stdout, trace,
                   jobs>>

BaseNameNext == BaseNameCall

BaseNameSpec == InitBaseName /\ [][BaseNameNext]_vars

(***************************************************************************)
(* Properties                                                              *)
(***************************************************************************)
InJob == pc \notin {"main_loop", "exit"}

\* The file name of a path: what follows its last '/' or '\'
FileNameOf(path) ==
    LET cut == {i \in 0..Len(path) :
                   /\ i > 0 => SubSeq(path, i, i) \in {"/", "\\"}
                   /\ \A j \in (i + 1)..Len(path) :
                         SubSeq(path, j, j) \notin {"/", "\\"}}
    IN  SubSeq(path, 1 + CHOOSE i \in cut : TRUE, Len(path))

\* The base name as documented: the file name without the prefix and the
\* suffix when it starts with the one and the path ends with the other, the
\* empty string otherwise
Documented(path, prefix, suffix) ==
    LET name == FileNameOf(path)
    IN  IF /\ Len(name) >= Len(prefix) /\ SubSeq(name, 1, Len(prefix)) = prefix
           /\ Len(path) >= Len(suffix)
           /\ SubSeq(path, Len(path) - Len(suffix) + 1, Len(path)) = suffix
        THEN SubSeq(name, Len(prefix) + 1, Len(name) - Len(suffix))
        ELSE ""

\* The job has performed the step (whatever came of it)
Did(step) == \E i \in 1..Len(trace) : trace[i] \in {step, step \o "_failed"}

RECURSIVE Worst(_)
Worst(js) == IF js = <<>> THEN kSuccess
             ELSE LET w == Worst(Tail(js))
                  IN  IF Head(js).outcome >= w THEN Head(js).outcome ELSE w

\* C1: at every moment the status main holds is the greatest ResultCode among
\* the jobs that have returned (Success when none has), so that is what main
\* exits with, and no step lowers it.
C1_ExitStatusIsWorst ==
    /\ [](resultCode = Worst(jobs))
    /\ [][resultCode' >= resultCode]_vars

C1_Witness ==
    /\ pc = "exit"
    /\ Len(jobs) = 2
    /\ jobs[1].outcome = kInputError
    /\ jobs[2].outcome = kCompileError
    /\ resultCode = kInputError

\* The non-empty segments of argv between the program name, the "--"
\* arguments and the end, each after the program name
SegmentsOf(av) ==
    LET n     == Len(av)
        cuts  == {1} \cup {i \in 2..n : av[i] = "--"} \cup {n + 1}
        pairs == {c \in cuts \X cuts :
                     /\ c[1] < c[2]
                     /\ \A k \in cuts : ~(c[1] < k /\ k < c[2])
                     /\ c[2] - c[1] > 1}
        nth(k) == CHOOSE c \in pairs :
                     Cardinality({d \in pairs : d[1] < c[1]}) = k - 1
    IN  [k \in 1..Cardinality(pairs) |->
            <<av[1]>> \o SubSeq(av, nth(k)[1] + 1, nth(k)[2] - 1)]

JobArgs == [k \in 1..Len(jobs) |-> jobs[k].args]

\* C2: the jobs run so far are the first segments of argv, in order, and when
\* main exits every non-empty segment has been run once, whatever the
\* jobs returned.
C2_JobsAreTheSegments ==
    LET segments == SegmentsOf(argv)
    IN  /\ Len(jobs) <= Len(segments)
        /\ JobArgs = SubSeq(segments, 1, Len(jobs))
        /\ InJob => /\ Len(jobs) < Len(segments)
                    /\ args = segments[Len(jobs) + 1]
        /\ pc = "exit" => JobArgs = segments

C2_Witness ==
    /\ pc = "exit"
    /\ Len(jobs) = 2
    /\ jobs[1].outcome # kSuccess
    /\ argv[Len(argv)] # "--"
    /\ \E i \in 2..(Len(argv) - 1) : argv[i] = "--" /\ argv[i + 1] = "--"

BadShape(a) ==
    \/ Len(a) \notin {3, 4}
    \/ Len(a) = 4 /\ a[4] \notin {"--settings", "--nosettings"}

\* C3: a job whose argument list is not 3 long, or 4 long ending in
\* --settings or --nosettings, goes from the argument check straight to its
\* return, with InputError and without having read, opened or compiled
\* anything.
C3_BadShapeIsInputError ==
    (InJob /\ BadShape(args)) =>
        /\ pc \in {"check_args", "return"}
        /\ trace = <<>>
        /\ out = "none"
        /\ pc = "return" => outcome = kInputError

C3_Witness ==
    /\ pc = "return"
    /\ Len(args) = 5
    /\ outcome = kInputError
    /\ Len(jobs) = 0

StageTable ==
    { <<".vert", "kVertex_Kind">>, <<".frag", "kFragment_Kind">>,
      <<".sksl", "kFragment_Kind">>, <<".geom", "kGeometry_Kind">>,
      <<".fp", "kFragmentProcessor_Kind">>, <<".stage", "kPipelineStage_Kind">> }

\* C4: once the kind of a job is resolved it is the one the table gives for
\* the suffix of the input path; a job whose input path has none of the
\* suffixes has returned InputError with no kind chosen and nothing read.
C4_KindFromSuffix ==
    (InJob /\ ~BadShape(args) /\ pc \notin {"check_args", "resolve_kind"}) =>
        IF \E e \in StageTable : EndsWith(args[2], e[1])
        THEN /\ \A e \in StageTable : EndsWith(args[2], e[1]) => kind = e[2]
             /\ pc = "return" => Did("read")
        ELSE /\ pc = "return"
             /\ outcome = kInputError
             /\ kind = "none"
             /\ trace = <<>>

C4_Witness ==
    /\ pc = "return"
    /\ args[2] = "vert"
    /\ Len(args) = 3
    /\ outcome = kInputError

OutputSuffixes == {".spirv", ".glsl", ".metal", ".h", ".cpp", ".dehydrated.sksl"}

UnknownOutput(a) ==
    /\ Len(a) >= 3
    /\ \A x \in OutputSuffixes : ~EndsWith(a[3], x)

\* C5 as stated: a job whose output path has none of the suffixes returns
\* InputError without having touched the file system.
C5_Original ==
    (pc = "return" /\ UnknownOutput(args)) =>
        /\ outcome = kInputError
        /\ ~Did("read") /\ ~Did("open")

\* C5, amended: a job whose output path has none of the suffixes returns
\* InputError without opening, creating or writing any file; its input file
\* has been opened for reading exactly when the argument list and the input
\* suffix were accepted.
C5_UnknownOutputWritesNothing ==
    /\ []((InJob /\ UnknownOutput(args)) =>
            /\ out = "none"
            /\ ~Did("open") /\ ~Did("compile") /\ ~Did("emit")
            /\ pc = "return" =>
                 /\ outcome = kInputError
                 /\ Did("read") <=>
                       /\ ~BadShape(args)
                       /\ \E e \in StageTable : EndsWith(args[2], e[1]))
    /\ [][(InJob /\ UnknownOutput(args)) => files' = files]_vars

C5_Witness ==
    /\ pc = "return"
    /\ UnknownOutput(args)
    /\ args[3] = "o.sksl"
    /\ trace = <<"read", "pragma">>
    /\ outcome = kInputError

\* The job has read its source: control is at or after the settings
PastRead ==
    \/ pc \in {"detect", "pragma_pass", "route", "compile", "emit", "compile_error",
               "load_module", "dehydrate", "close"}
    \/ pc = "return" /\ \E i \in 1..Len(trace) : trace[i] = "read"

\* The job is past the settings: the parser has returned or was not called
PastDetect == PastRead /\ pc \notin {"detect", "pragma_pass"}

\* The parser returned false in this job
PragmaFailed == pc = "return" /\ settingsText # ""

\* Pragma settings are honoured for this argument list
Honored(a) == Len(a) = 3 \/ (Len(a) = 4 /\ a[4] = "--settings")

\* Where the marker and the terminator occur in a source
MarkerAt(s) == {i \in 1..(Len(s) - Len(kPragmaSettings) + 1) :
                   SubSeq(s, i, i + Len(kPragmaSettings) - 1) = kPragmaSettings}
TerminatorAt(s) == {j \in 1..(Len(s) - 1) : SubSeq(s, j, j + 1) = "*/"}

\* The source holds a marker with a terminator after it
HasPragma(s) ==
    \E i \in MarkerAt(s), j \in TerminatorAt(s) : j >= i + Len(kPragmaSettings)

\* The words of the first pragma of a source that has one: what stands
\* between the spaces after "settings", up to the first terminator
RECURSIVE WordsOf(_)
WordsOf(body) ==
    IF body = "" THEN <<>>
    ELSE LET next == {k \in 2..Len(body) : SubSeq(body, k, k) = " "}
             stop == IF next = {} THEN Len(body) + 1
                     ELSE CHOOSE k \in next : \A m \in next : k <= m
         IN  <<SubSeq(body, 2, stop - 1)>> \o WordsOf(SubSeq(body, stop, Len(body)))

PragmaWords(s) ==
    LET i == CHOOSE a \in MarkerAt(s) : \A b \in MarkerAt(s) : a <= b
        after == {j \in TerminatorAt(s) : j >= i + Len(kPragmaSettings)}
        j == CHOOSE a \in after : \A b \in after : a <= b
    IN  WordsOf(SubSeq(s, i + Len(kPragmaSettings) - 1, j - 1))

Range(f) == {f[i] : i \in DOMAIN f}

Toggles(s) == <<s.fFlipY, s.fForceHighPrecision, s.fSharpenTextures, s.fInlineThreshold>>

\* C6: a job that honours settings and whose source has no marker with a
\* terminator after it comes out of the parser without a pass of its loop,
\* with the settings and caps it went in with, and keeps the toggles, the
\* inline threshold and the caps of a fresh job until it returns; the parser
\* has not failed.
C6_NoPragmaNoChange ==
    (InJob /\ PastRead /\ pc # "detect" /\ Honored(args) /\ ~HasPragma(text)) =>
        /\ pc # "pragma_pass"
        /\ ~PragmaFailed
        /\ Did("pragma")
        /\ Toggles(settings) = Toggles(DefaultSettings)
        /\ caps = standaloneCaps
        /\ pc = "route" => settings = DefaultSettings
        /\ DetectShaderSettings(text, settings, caps, staticCaps)
             = [ok |-> TRUE,
                st |-> [text |-> "", settings |-> settings, caps |-> caps,
                        statics |-> staticCaps, made |-> <<>>]]

C6_Witness ==
    /\ pc = "compile"
    /\ Honored(args)
    /\ text = Unterminated(<<"Sharpen">>)
    /\ settings = DefaultSettings

CapsSet == Range(CapsNames)

\* Names with disjoint effects: recognized, no name twice, at most one
\* capability bundle, at most one of NoInline and InlineThresholdMax
DisjointNames(ws) ==
    /\ Len(ws) >= 1
    /\ Range(ws) \subseteq Range(PragmaNames)
    /\ Cardinality(Range(ws)) = Len(ws)
    /\ Cardinality(Range(ws) \cap CapsSet) <= 1
    /\ Cardinality(Range(ws) \cap {"NoInline", "InlineThresholdMax"}) <= 1

Orderings(S) ==
    {p \in [1..Cardinality(S) -> S] : \A i, j \in DOMAIN p : p[i] = p[j] => i = j}

\* C7: when the pragma of a job lists names with disjoint effects, the
\* parser does not fail, and the settings and caps it leaves are those
\* detect_shader_settings gives, with success, for every ordering of the
\* same names.
C7_OrderIndependent ==
    (InJob /\ PastRead /\ Honored(args) /\ HasPragma(text)
       /\ DisjointNames(PragmaWords(text))) =>
        /\ ~PragmaFailed
        /\ pc = "route" =>
             \A p \in Orderings(Range(PragmaWords(text))) :
                LET r == DetectShaderSettings(PragmaOf(p), DefaultSettings,
                                              standaloneCaps, {})
                IN  /\ r.ok
                    /\ r.st.settings = settings
                    /\ r.st.caps = caps

C7_Witness ==
    /\ pc = "route"
    /\ Honored(args)
    /\ text = PragmaOf(<<"Default", "NoInline", "Sharpen">>)
    /\ caps = "Default"
    /\ settings.fSharpenTextures
    /\ settings.fInlineThreshold = 0

\* C8: a job that honours settings and whose pragma holds a word that is
\* no recognized name does not get past the parser: it returns InputError
\* with no output stream opened and no compiler call.
C8_UnrecognizedIsInputError ==
    (InJob /\ PastRead /\ pc # "detect" /\ Honored(args) /\ HasPragma(text)
       /\ \E w \in Range(PragmaWords(text)) :
             w # "" /\ w \notin Range(PragmaNames)) =>
        /\ pc \in {"pragma_pass", "return"}
        /\ out = "none"
        /\ ~Did("open") /\ ~Did("compile") /\ ~Did("emit")
        /\ pc = "return" => (outcome = kInputError /\ PragmaFailed)

C8_Witness ==
    /\ pc = "return"
    /\ Honored(args)
    /\ text = PragmaOf(<<"Bogus", "Default">>)
    /\ outcome = kInputError
    /\ caps = "Default"
    /\ trace = <<"read", "pragma">>

\* C9: a job of 3 arguments or with --settings runs the parser once it has
\* read its source; a job with --nosettings never runs it, whatever the
\* source holds: it reaches the choice of the backend with the settings and
\* caps of a fresh job, keeps its toggles and caps to the end, and returns
\* InputError only for an input it cannot read or an output suffix it does
\* not know.
C9_NosettingsSkipsParser ==
    (InJob /\ ~BadShape(args) /\ pc # "check_args") =>
        IF Honored(args)
        THEN /\ honorSettings
             /\ PastDetect => Did("pragma")
        ELSE /\ ~honorSettings
             /\ ~Did("pragma")
             /\ pc # "pragma_pass"
             /\ ~PragmaFailed
             /\ PastDetect =>
                  /\ Toggles(settings) = Toggles(DefaultSettings)
                  /\ caps = standaloneCaps
             /\ pc = "route" => settings = DefaultSettings
             /\ (pc = "return" /\ outcome = kInputError /\ PastRead)
                  => UnknownOutput(args)

C9_Witness ==
    /\ pc = "compile"
    /\ Len(args) = 4
    /\ args[4] = "--nosettings"
    /\ text = PragmaOf(<<"Bogus", "Sharpen">>)
    /\ settings = DefaultSettings
    /\ caps = standaloneCaps

CompileAndEmit == {".spirv", ".glsl", ".metal", ".h", ".cpp"}

\* The compiler gave no program, or the emitter failed, in this job
CompileFailed ==
    \/ program = "null"
    \/ \E i \in 1..Len(trace) : trace[i] = "emit_failed"

\* C10 as stated: in every pipeline a job in which the compiler gave no
\* program or the emitter failed returns CompileError, its output holds the
\* banner and the diagnostic and nothing else, and the diagnostic was
\* printed.
C10_Original ==
    (pc = "return" /\ CompileFailed) =>
        /\ outcome = kCompileError
        /\ files[args[3]] = kBanner \o ErrorText
        /\ stdout # <<>> /\ stdout[Len(stdout)] = ErrorText

\* C10, amended: in the .spirv, .glsl, .metal, .h and .cpp pipelines a job
\* in which the compiler gave no program or the emitter failed returns
\* CompileError with its stream closed and the diagnostic printed last; the
\* output path was opened a second time, and when that open succeeded the
\* output holds the banner followed by the diagnostic and nothing else,
\* when it failed (it is not tested) the output holds what the first stream
\* left. In the .dehydrated.sksl pipeline nothing depends on what the
\* compiler reported: the job writes the array, closes and returns Success
\* or OutputError.
C10_CompileErrorOverwrites ==
    (pc = "return" /\ CompileFailed) =>
        IF \E x \in CompileAndEmit : EndsWith(args[3], x)
        THEN /\ outcome = kCompileError
             /\ out = "closed"
             /\ stdout # <<>> /\ stdout[Len(stdout)] = ErrorText
             /\ SubSeq(trace, Len(trace) - 2, Len(trace))
                  \in {"close", "close_failed"} \X {"reopen", "reopen_failed"}
                        \X {"close", "close_failed"}
             /\ "reopen" \in Range(trace)
                  => files[args[3]] = kBanner \o ErrorText
             /\ "reopen_failed" \in Range(trace)
                  => \/ program = "null" /\ files[args[3]] = ""
                     \/ /\ program = "program"
                        /\ files[args[3]] # ""
                        /\ ~StartsWith(files[args[3]], kBanner)
        ELSE /\ EndsWith(args[3], ".dehydrated.sksl")
             /\ outcome \in {kSuccess, kOutputError}
             /\ Did("emit") /\ Did("close")
             /\ files[args[3]] = Dehydrated(Documented(args[2], "", ".sksl"))

C10_Witness ==
    /\ pc = "return"
    /\ "emit_failed" \in Range(trace)
    /\ "reopen" \in Range(trace)
    /\ outcome = kCompileError
    /\ files[args[3]] = kBanner \o ErrorText

Last(q) == q[Len(q)]

\* C11: a job that opened its output, compiled and emitted with success, and
\* whose close of the output failed returns OutputError; a job that returns Success
\* has opened, compiled (or loaded), emitted and closed its output, each
\* with success, the close last.
C11_CloseFailureIsOutputError ==
    (pc = "return") =>
        /\ (trace # <<>> /\ Last(trace) = "close_failed" /\ ~CompileFailed) =>
              /\ outcome = kOutputError
              /\ out = "closed"
              /\ {"open", "compile", "emit"} \subseteq Range(trace)
        /\ outcome = kSuccess =>
              /\ ~BadShape(args)
              /\ \E x \in OutputSuffixes : EndsWith(args[3], x)
              /\ trace # <<>> /\ Last(trace) = "close"
              /\ {"open", "compile", "emit"} \subseteq Range(trace)
              /\ (\E x \in CompileAndEmit : EndsWith(args[3], x))
                    => program = "program"
              /\ Range(trace) \cap {"read_failed", "open_failed", "emit_failed",
                                     "close_failed", "reopen", "reopen_failed"} = {}
              /\ out = "closed"

C11_Witness ==
    /\ pc = "return"
    /\ Len(args) = 3
    /\ EndsWith(args[3], ".dehydrated.sksl")
    /\ trace # <<>>
    /\ Last(trace) = "close_failed"
    /\ outcome = kOutputError
    /\ files[args[3]] = Dehydrated(Documented(args[2], "", ".sksl"))

Closes == {"close", "close_failed"}

\* The streams a job opened and has not closed: an open or reopen step of
\* the trace with no close step after it
OpenHandles ==
    {i \in 1..Len(trace) :
        /\ trace[i] \in {"open", "reopen"}
        /\ \A j \in (i + 1)..Len(trace) : trace[j] \notin Closes}

\* C12 as stated: when a job returns, every stream it opened has been
\* closed, and the result of every close was tested: a close that failed
\* made the job return OutputError.
C12_Original ==
    (pc = "return") =>
        /\ OpenHandles = {}
        /\ out # "open"
        /\ "close_failed" \in Range(trace) => outcome = kOutputError

\* C12, amended: a job starts with no output stream, and when it returns
\* every stream it opened has been closed by a close step (a stream whose
\* open failed holds no file). The result of the close is tested only where
\* compilation and emission succeeded: there the job returns OutputError
\* when the close failed and Success when it did not. In the compile-error
\* path the stream is closed, the path reopened and the second stream
\* closed, and the job returns CompileError whatever the two closes and the
\* reopening gave.
C12_HandlesClosedOnReturn ==
    /\ pc = "check_args" => (out = "none" /\ trace = <<>>)
    /\ pc = "return" =>
          /\ OpenHandles = {}
          /\ out = (IF "open" \in Range(trace) THEN "closed"
                    ELSE IF "open_failed" \in Range(trace) THEN "invalid"
                    ELSE "none")
          /\ "open_failed" \in Range(trace) =>
                (Last(trace) = "open_failed" /\ outcome = kOutputError)
          /\ "open" \in Range(trace) =>
                IF CompileFailed /\ \E x \in CompileAndEmit : EndsWith(args[3], x)
                THEN /\ outcome = kCompileError
                     /\ SubSeq(trace, Len(trace) - 2, Len(trace))
                           \in Closes \X {"reopen", "reopen_failed"} \X Closes
                     /\ Cardinality({i \in 1..Len(trace) : trace[i] \in Closes}) = 2
                ELSE /\ Last(trace) \in Closes
                     /\ Cardinality({i \in 1..Len(trace) : trace[i] \in Closes}) = 1
                     /\ outcome = (IF Last(trace) = "close" THEN kSuccess
                                   ELSE kOutputError)

C12_Witness ==
    /\ pc = "return"
    /\ Len(trace) >= 3
    /\ SubSeq(trace, Len(trace) - 2, Len(trace))
          = <<"close_failed", "reopen", "close_failed">>
    /\ out = "closed"
    /\ outcome = kCompileError

Rank(m) ==
    CASE m \in {"read", "read_failed"} -> 1
      [] m = "pragma" -> 2
      [] m \in {"open", "open_failed"} -> 3
      [] m \in {"compile", "compile_failed"} -> 4
      [] m \in {"emit", "emit_failed"} -> 5
      [] m \in Closes -> 6
      [] OTHER -> 7

Failures == {"read_failed", "open_failed", "compile_failed", "emit_failed",
             "close_failed"}

CodeOf(m) ==
    CASE m = "read_failed" -> kInputError
      [] m \in {"open_failed", "close_failed"} -> kOutputError
      [] m \in {"compile_failed", "emit_failed"} -> kCompileError

\* The compile error was written out: the trace ends with the three steps
\* of that
Handled == \E i \in 1..Len(trace) : trace[i] \in {"reopen", "reopen_failed"}

\* The steps of the job but for those
Pipeline == IF Handled THEN SubSeq(trace, 1, Len(trace) - 3) ELSE trace

C15_LeftmostSelectorWins ==
    (InJob /\ pc # "terminated" /\ PastRead /\ pc # "detect" /\ Honored(args)
       /\ HasPragma(text)) =>
        LET all  == PragmaWords(text)
            left == WordsOf(settingsText)
            done == SubSeq(all, Len(left) + 1, Len(all))
            sel  == {i \in 1..Len(done) : done[i] \in CapsSet}
        IN  /\ left = SubSeq(all, 1, Len(left))
            /\ caps = IF sel = {} THEN standaloneCaps
                      ELSE done[CHOOSE i \in sel : \A j \in sel : i <= j]
            /\ (PastDetect /\ ~PragmaFailed) => settingsText = ""

C15_Witness ==
    /\ pc = "route"
    /\ Honored(args)
    /\ text = PragmaOf(<<"Version110", "Sharpen", "Default">>)
    /\ caps = "Version110"
    /\ staticCaps = {"Default", "Version110"}

\* The words a step of the parser strips from settingsText
StrippedWords(before, after) ==
    Range(SubSeq(WordsOf(before), Len(WordsOf(after)) + 1, Len(WordsOf(before))))

\* C16: a pass of the parser changes the settings and the caps by the words
\* it strips and by nothing else: FlipY, ForceHighPrecision and Sharpen set
\* their own flag, NoInline sets the inline threshold to 0 and
\* InlineThresholdMax to INT_MAX, every other field keeps its value, and
\* the caps and the bundles constructed change only for a capability
\* selector. So a job whose source is that of FunctionPrototype.sksl reaches
\* the compiler with the inline threshold 0 and nothing else changed.
C16_OneFieldPerToggle ==
    /\ [][pc = "pragma_pass" =>
            LET ws == StrippedWords(settingsText, settingsText')
            IN  /\ settings'.fFlipY = (settings.fFlipY \/ "FlipY" \in ws)
                /\ settings'.fForceHighPrecision
                      = (settings.fForceHighPrecision \/ "ForceHighPrecision" \in ws)
                /\ settings'.fSharpenTextures
                      = (settings.fSharpenTextures \/ "Sharpen" \in ws)
                /\ settings'.fInlineThreshold
                      = (CASE ws \cap {"NoInline", "InlineThresholdMax"} = {}
                                -> settings.fInlineThreshold
                           [] ws \cap {"NoInline", "InlineThresholdMax"} = {"NoInline"}
                                -> 0
                           [] ws \cap {"NoInline", "InlineThresholdMax"}
                                = {"InlineThresholdMax"} -> INT_MAX
                           [] OTHER -> settings'.fInlineThreshold)
                /\ settings'.fInlineThreshold \in {settings.fInlineThreshold, 0, INT_MAX}
                /\ settings'.fReplaceSettings = settings.fReplaceSettings
                /\ DOMAIN settings' = DOMAIN settings
                /\ ws \cap CapsSet = {} => (caps' = caps /\ staticCaps' = staticCaps)
                /\ staticCaps' = staticCaps \cup (ws \cap CapsSet)]_vars
    /\ []((InJob /\ PastDetect /\ Honored(args)
            /\ text = PragmaOf(<<"NoInline">>)) =>
              /\ ~PragmaFailed
              /\ Toggles(settings) = <<FALSE, FALSE, FALSE, 0>>
              /\ caps = standaloneCaps)

C16_Witness ==
    /\ pc = "emit"
    /\ Honored(args)
    /\ text = PragmaOf(<<"NoInline">>)
    /\ program = "program"
    /\ settings = [DefaultSettings EXCEPT !.fInlineThreshold = 0]
    /\ caps = standaloneCaps

\* The output path is that of a C++ header or source
ForCpp(a) == EndsWith(a[3], ".h") \/ EndsWith(a[3], ".cpp")

\* C17 as stated: once the parser has returned or was skipped, no field of
\* the settings of the job changes.
C17_Original ==
    [][(InJob /\ PastDetect) => settings' = settings]_vars

\* C17, amended: the settings of a job change only in the parser and, in
\* the .h and .cpp pipelines, where fReplaceSettings is set to false
\* between the open of the output and the compilation; from the return of
\* the parser on the toggles, the inline threshold and the caps keep their
\* values for every output suffix, and fReplaceSettings is true until that
\* assignment and in every other pipeline.
C17_SettingsFixedAfterParser ==
    /\ [][(InJob /\ PastDetect) =>
            /\ Toggles(settings') = Toggles(settings)
            /\ caps' = caps
            /\ settings'.fReplaceSettings
                  = IF pc = "compile" /\ ForCpp(args) THEN FALSE
                    ELSE settings.fReplaceSettings]_vars
    /\ [][settings' # settings =>
            pc \in {"detect", "pragma_pass", "compile"}]_vars
    /\ []((InJob /\ PastDetect /\ pc # "terminated") =>
            settings.fReplaceSettings = ~(ForCpp(args) /\ Did("compile")))

C17_Witness ==
    /\ pc = "emit"
    /\ EndsWith(args[3], ".h")
    /\ text = PragmaOf(<<"NoInline">>)
    /\ Honored(args)
    /\ settings = [DefaultSettings EXCEPT !.fInlineThreshold = 0,
                                          !.fReplaceSettings = FALSE]

\* The words of the pragma of the job that count: none when the settings
\* are not honoured or the source has no pragma
OwnWords ==
    IF Honored(args) /\ HasPragma(text) THEN Range(PragmaWords(text)) ELSE {}

\* C18: whatever jobs ran before it, a job that is past its parser holds the
\* settings and the caps that its own pragma gives from a fresh record and
\* the standalone caps: a flag is set exactly when its own pragma names it,
\* the inline threshold is the default unless its own pragma names NoInline
\* or InlineThresholdMax, the caps are the standalone ones unless its own
\* pragma names a bundle, and the parser of every job starts from the
\* fresh record and the standalone caps.
C18_FreshSettingsPerJob ==
    /\ []((InJob /\ PastDetect /\ pc # "terminated" /\ ~PragmaFailed) =>
            /\ settings.fFlipY = ("FlipY" \in OwnWords)
            /\ settings.fForceHighPrecision = ("ForceHighPrecision" \in OwnWords)
            /\ settings.fSharpenTextures = ("Sharpen" \in OwnWords)
            /\ OwnWords \cap {"NoInline", "InlineThresholdMax"} = {}
                  => settings.fInlineThreshold = DefaultSettings.fInlineThreshold
            /\ caps \in (OwnWords \cap CapsSet) \cup {standaloneCaps}
            /\ OwnWords \cap CapsSet = {} <=> caps = standaloneCaps)
    /\ [][pc = "detect" => (settings' = DefaultSettings /\ caps' = standaloneCaps)]_vars

C18_Witness ==
    /\ pc = "compile"
    /\ Len(jobs) = 1
    /\ jobs[1].args = <<"skslc", "a.sksl", "b.glsl">>
    /\ jobs[1].outcome = kSuccess
    /\ staticCaps = {"Default"}
    /\ args = <<"skslc", "n.frag", "b.glsl">>
    /\ settings = DefaultSettings
    /\ caps = standaloneCaps

\* C19: every bundle is constructed at most once and those constructed are
\* the static ones; a pass of the parser constructs exactly the bundles it
\* selects for the first time in the process, in no other step is one
\* constructed, and none constructed is ever dropped or constructed again;
\* the caps of a job past its parser are the standalone ones or a bundle
\* constructed.
C19_BundlesConstructedOnce ==
    /\ [](\A i, j \in 1..Len(constructions) :
             constructions[i] = constructions[j] => i = j)
    /\ [](Range(constructions) = staticCaps /\ staticCaps \subseteq CapsSet)
    /\ []((InJob /\ PastDetect /\ pc # "terminated")
            => caps \in staticCaps \cup {standaloneCaps})
    /\ [][/\ Len(constructions') >= Len(constructions)
           /\ SubSeq(constructions', 1, Len(constructions)) = constructions
           /\ IF pc = "pragma_pass"
              THEN Range(constructions')
                     = Range(constructions)
                         \cup (StrippedWords(settingsText, settingsText') \cap CapsSet)
              ELSE constructions' = constructions]_vars

C19_Witness ==
    /\ pc = "route"
    /\ Len(jobs) = 1
    /\ jobs[1].args = <<"skslc", "a.sksl", "b.glsl">>
    /\ jobs[1].outcome = kSuccess
    /\ args = <<"skslc", "a.sksl", "b.glsl">>
    /\ caps = "Default"
    /\ constructions = <<"Default">>

\* The text of the pragma of a source that has one: from the last space of
\* the first marker to the first terminator after it
PragmaText(s) ==
    LET i == CHOOSE a \in MarkerAt(s) : \A b \in MarkerAt(s) : a <= b
        after == {j \in TerminatorAt(s) : j >= i + Len(kPragmaSettings)}
        j == CHOOSE a \in after : \A b \in after : a <= b
    IN  SubSeq(s, i + Len(kPragmaSettings) - 1, j - 1)

\* C20: a pass of the parser leaves the text empty and the parser returns
\* true, or leaves it shorter and not empty and another pass follows, or
\* leaves it as it was, not empty, and the parser returns false; so the
\* passes before the last have each shortened the text, and their number
\* never exceeds the length of the pragma's text: the loop ends.
C20_ParserTerminates ==
    /\ [][pc = "pragma_pass" =>
            /\ passes' = passes + 1
            /\ settingsText # ""
            /\ \/ settingsText' = "" /\ pc' = "route"
               \/ /\ settingsText' # ""
                  /\ Len(settingsText') < Len(settingsText)
                  /\ pc' = "pragma_pass"
               \/ /\ settingsText' = settingsText
                  /\ pc' = "return"
                  /\ outcome' = kInputError]_vars
    /\ []((InJob /\ PastRead /\ pc # "detect" /\ Honored(args) /\ HasPragma(text)) =>
            /\ passes <= Len(PragmaText(text))
            /\ Len(settingsText) <= Len(PragmaText(text))
            /\ passes + Len(settingsText) <= Len(PragmaText(text)) + 1
            /\ PastDetect => passes >= 1)

C20_Witness ==
    /\ pc = "route"
    /\ Honored(args)
    /\ text = PragmaOf(<<"Default", "Version110", "Sharpen">>)
    /\ passes = 3
    /\ settingsText = ""

\* The text is one or more items, each a space and a recognized name
WellFormed(t) ==
    LET ws == WordsOf(t)
    IN  /\ Len(ws) >= 1
        /\ Range(ws) \subseteq Range(PragmaNames)
        /\ Concat([i \in 1..Len(ws) |-> " " \o ws[i]]) = t

\* C21: in a job that honours settings and whose source has a marker and a
\* terminator after it, the parser returns true exactly when the text from
\* the last space of the marker to the terminator is one or more items,
\* each a space and a recognized name, and then nothing of the text is
\* left; for any other text (the empty directive, two spaces between
\* names, a space before the terminator) it returns false with text left,
\* prints that text as unrecognized, and the job returns InputError.
C21_AcceptsExactlyItems ==
    (InJob /\ pc # "terminated" /\ PastDetect /\ Honored(args) /\ HasPragma(text)) =>
        LET items == WellFormed(PragmaText(text))
        IN  /\ pc \in {"route", "return"} =>
                  DetectShaderSettings(text, DefaultSettings, standaloneCaps, {}).ok
                    = items
            /\ IF items
               THEN /\ settingsText = ""
                    /\ ~PragmaFailed
                    /\ (pc = "return" /\ outcome = kInputError)
                          => UnknownOutput(args)
               ELSE /\ pc = "return"
                    /\ outcome = kInputError
                    /\ settingsText # ""
                    /\ trace = <<"read", "pragma">>
                    /\ stdout # <<>>
                    /\ Last(stdout) = "Unrecognized #pragma settings: "
                                         \o settingsText \o "\n"

C21_Witness ==
    /\ pc = "return"
    /\ Honored(args)
    /\ text = "/*#pragma settings */"
    /\ settingsText = " "
    /\ passes = 1
    /\ outcome = kInputError

=============================================================================
